---- MODULE Spec2Model ----
\* Model of the keyword classifier in src/src/lib.rs: the process-wide
\* MATCHER (a mutex around the result of get_url mapped to KokoKeywords::new),
\* KokoKeywords::verify and KokoKeywords::load_cache, and the callers that
\* enter through koko_keywords_match.
EXTENDS FiniteSets, Integers, Sequences, TLC

\* ---------------------------------------------------------------- bounds
\* remote fetches one classify call may issue before the model stops following it
MaxFetches == 2
\* the clock is read at 0 and at up to MaxTick default lifetimes later
MaxTick == 1

\* ---------------------------------------------------------------- constants
CACHE_EXPIRATION_DEFAULT == 3600

URL == "api.kokocares.org/keywords"

\* ---------------------------------------------------------------- values
None == [some |-> FALSE]

Some(v) == [some |-> TRUE, val |-> v]

Ok(v) == [tag |-> "Ok", val |-> v]

Err(e) == [tag |-> "Err", err |-> e]

\* a panic raised by unwrap()
Panic == [tag |-> "Panic"]

NoResult == [tag |-> "None"]

\* enum KokoError, in declaration order
KokoError == <<"Padding", "AuthOrUrlMissing", "CacheRefreshRequestFailure", "CacheResultParseFailure", "ParseError">>

\* `e as isize`: the discriminant of a variant is its position, from 0
Discriminant(e) == (CHOOSE i \in 1..Len(KokoError) : KokoError[i] = e) - 1

\* the integer koko_keywords_match hands back
ReturnCode(r) == IF r.tag = "Ok" THEN (IF r.val THEN 1 ELSE 0) ELSE 0 - Discriminant(r.err)

\* ---------------------------------------------------------------- patterns
\* A pattern of the regex grammar, reduced to what the rule sets below use:
\* a sequence of character classes, optionally anchored; valid = FALSE is a
\* string Regex::new rejects.
Digits == {"1", "2", "3"}

\* "[0-9]"
PatDigit == [valid |-> TRUE, bol |-> FALSE, eol |-> FALSE, atoms |-> <<Digits>>]

\* "x"
PatX == [valid |-> TRUE, bol |-> FALSE, eol |-> FALSE, atoms |-> <<{"x"}>>]

\* "^abc$"
PatAbc == [valid |-> TRUE, bol |-> TRUE, eol |-> TRUE, atoms |-> <<{"a"}, {"b"}, {"c"}>>]

\* "(" : unclosed group
PatBroken == [valid |-> FALSE, bol |-> FALSE, eol |-> FALSE, atoms |-> <<{"("}>>]

\* Regex::new
RegexNew(p) == IF p.valid THEN Ok(p) ELSE Err("Syntax")

\* the pattern matches s at position i
MatchAt(p, s, i) ==
    /\ i + Len(p.atoms) - 1 <= Len(s)
    /\ \A k \in 1..Len(p.atoms) : s[i + k - 1] \in p.atoms[k]
    /\ p.bol => i = 1
    /\ p.eol => i + Len(p.atoms) - 1 = Len(s)

\* Regex::is_match: the pattern matches somewhere in s
IsMatch(p, s) == \E i \in 1..Len(s) : MatchAt(p, s, i)

RECURSIVE ReplaceFrom(_, _, _)
\* Regex::replace_all(s, ""): drop the leftmost non-overlapping matches
ReplaceFrom(p, s, i) ==
    IF i > Len(s) THEN <<>>
    ELSE IF MatchAt(p, s, i) THEN ReplaceFrom(p, s, i + Len(p.atoms))
    ELSE <<s[i]>> \o ReplaceFrom(p, s, i + 1)

ReplaceAll(p, s) == ReplaceFrom(p, s, 1)

RECURSIVE ScanKeywords(_, _)
\* the for loop of verify: compile each keyword in order, return on the first match
ScanKeywords(kws, text) ==
    IF kws = <<>> THEN Ok(FALSE)
    ELSE IF RegexNew(Head(kws)).tag # "Ok" THEN Panic
    ELSE IF IsMatch(Head(kws), text) THEN Ok(TRUE)
    ELSE ScanKeywords(Tail(kws), text)

\* a match on the text as given, the preprocess pattern compiled and unused
EvaluateRaw(rs, input) ==
    IF RegexNew(rs.preprocess).tag # "Ok" THEN Panic
    ELSE ScanKeywords(rs.keywords, input)

\* the fresh branch of verify: preprocess, then scan
Evaluate(rs, input) ==
    IF RegexNew(rs.preprocess).tag # "Ok" THEN Panic
    ELSE ScanKeywords(rs.keywords, ReplaceAll(rs.preprocess, input))

\* ---------------------------------------------------------------- inputs
InputDigits == <<"a", "1", "b", "2", "c", "3">>

InputX == <<"x", "a", "b", "c", "x">>

Inputs == {InputDigits, InputX}

\* (filter, version) pairs the callers use
Selectors ==
    { [filter |-> <<"a">>, version |-> None],
      [filter |-> <<"a">>, version |-> Some(<<"b">>)],
      [filter |-> <<"a", "b">>, version |-> None] }

RsDigits == [preprocess |-> PatDigit, keywords |-> <<PatAbc>>]

RsX == [preprocess |-> PatX, keywords |-> <<PatAbc>>]

RsBroken == [preprocess |-> PatDigit, keywords |-> <<PatAbc, PatBroken>>]

\* response bodies: {"regex": {"keywords": [...], "preprocess": "..."}} and
\* one without the keywords field
Bodies ==
    { [regex |-> rs] : rs \in {RsDigits, RsX, RsBroken} }
      \cup { [regex |-> [preprocess |-> PatDigit]] }

\* cache-control max-age values the remote sends (None: header absent or unparseable)
MaxAges == {None, Some(0)}

\* what request.call() and the reading of the body can yield
Responses ==
    { [kind |-> k] : k \in {"transport", "status"} }
      \cup { [kind |-> "ok", max_age |-> m, body |-> b] : m \in MaxAges, b \in Bodies }

\* readings of SystemTime::now()
Times == { k * CACHE_EXPIRATION_DEFAULT : k \in 0..MaxTick }

\* threads of the host program that call koko_keywords_match
Callers == {"c1", "c2"}

\* values of an environment variable
EnvUrls == {None, Some("http://local/keywords")}

EnvAuths == {None, Some("tok")}

\* ---------------------------------------------------------------- state
VARIABLES
    envUrl,      \* KOKO_KEYWORDS_URL in the process environment
    envAuth,     \* KOKO_KEYWORDS_AUTH in the process environment
    matcher,     \* MATCHER: "Uninit" until first use, then Ok(url) or Err(e)
    keywords,    \* KokoKeywords.keywords: cache key -> KeywordsCache
    lockHolder,  \* the caller holding the MATCHER mutex, or None
    poisoned,    \* the mutex's poison flag
    now,         \* the system clock
    pc,          \* where each caller is
    call,        \* the arguments of each caller's current call
    fetches,     \* remote requests issued by each caller's current call
    result,      \* the KokoResult each caller's current call produced
    inflight,    \* requests sent and not yet answered
    queried,     \* history: selectors some call has been made for
    origin,      \* history: cache key -> selector whose request filled the entry
    resolved,    \* history: the environment get_url read, once it has run
    memo,        \* history: the selector, input and result of the last noted call
    obs          \* history: what each caller's current call observed

vars == <<envUrl, envAuth, matcher, keywords, lockHolder, poisoned, now, pc, call,
          fetches, result, inflight, queried, origin, resolved, memo, obs>>

NoCall == [input |-> <<>>, filter |-> <<>>, version |-> None]

\* first: the call is the first one for its selector; entry: what its first
\* lookup found; used: the rule set its match ran on; usedFor: the selector
\* that entry was fetched for; fetched: the rule set of its last successful
\* fetch; answer: how its last request ended; header: the max-age of its last
\* well-formed answer
NoObs == [first |-> FALSE, entry |-> "none", used |-> None, usedFor |-> None,
          fetched |-> None, answer |-> "none", header |-> None]

\* ---------------------------------------------------------------- functions
\* Option::unwrap_or_default on Option<&str>
UnwrapOrDefault(version) == IF version.some THEN version.val ELSE <<>>

\* format!("{}{}", filter, version.unwrap_or_default())
CacheKey(filter, version) == filter \o UnwrapOrDefault(version)

\* get_url preferring the explicit URL when both variables are set
GetUrlPreferUrl(url, auth) ==
    IF url.some THEN Ok(url.val)
    ELSE IF auth.some THEN Ok("https://" \o auth.val \o "@" \o URL)
    ELSE Err("AuthOrUrlMissing")

\* get_url: the endpoint from the two environment variables
GetUrl(url, auth) ==
    IF url.some /\ auth.some THEN Err("AuthOrUrlMissing")
    ELSE IF url.some THEN Ok(url.val)
    ELSE IF auth.some THEN Ok("https://" \o auth.val \o "@" \o URL)
    ELSE Err("AuthOrUrlMissing")

\* the request load_cache builds: filter always, version when present
Request(url, filter, version) ==
    [url |-> url,
     query |-> IF version.some THEN <<filter, version.val>> ELSE <<filter>>]

\* the default lifetime whatever the header says
ExpiresInDefaultOnly(resp) == CACHE_EXPIRATION_DEFAULT

\* the cache-control max-age of the response, or the default
ExpiresIn(resp) ==
    IF resp.max_age.some THEN resp.max_age.val ELSE CACHE_EXPIRATION_DEFAULT

\* serde_json::from_reader into ApiResponse { regex: Keywords { keywords, preprocess } }
ParseBody(body) ==
    IF /\ "regex" \in DOMAIN body
       /\ {"keywords", "preprocess"} \subseteq DOMAIN body.regex
    THEN Ok(body.regex)
    ELSE Err("ParseError")

\* an insert into a map made anew
InsertIntoEmpty(kw, key, entry) == [k \in {key} |-> entry]

\* HashMap::insert
Insert(kw, key, entry) ==
    [k \in DOMAIN kw \cup {key} |-> IF k = key THEN entry ELSE kw[k]]

\* load_cache dropping the selector's entry before it asks the remote
LoadCacheEvictFirst(kw, filter, version, resp, t) ==
    LET key == CacheKey(filter, version)
        cleared == [k \in DOMAIN kw \ {key} |-> kw[k]]
    IN
    IF resp.kind # "ok" THEN [result |-> Err("ParseError"), keywords |-> cleared]
    ELSE LET parsed == ParseBody(resp.body) IN
         IF parsed.tag # "Ok" THEN [result |-> Err("ParseError"), keywords |-> cleared]
         ELSE [result |-> Ok(TRUE),
               keywords |-> Insert(kw, key, [expires_at |-> t + ExpiresIn(resp),
                                             keywords |-> parsed.val])]

\* load_cache on the answer resp, read at clock t: the result and the map afterwards
LoadCache(kw, filter, version, resp, t) ==
    IF resp.kind # "ok" THEN [result |-> Err("ParseError"), keywords |-> kw]
    ELSE LET parsed == ParseBody(resp.body) IN
         IF parsed.tag # "Ok" THEN [result |-> Err("ParseError"), keywords |-> kw]
         ELSE [result |-> Ok(TRUE),
               keywords |-> Insert(kw, CacheKey(filter, version),
                                   [expires_at |-> t + ExpiresIn(resp),
                                    keywords |-> parsed.val])]

\* an entry still counted fresh at its expiry instant
IsFreshInclusive(entry, t) == t <= entry.expires_at

\* SystemTime::now() < keyword_cache.expires_at
IsFresh(entry, t) == t < entry.expires_at

\* a lookup that takes any entry present as fresh
LookupIgnoringExpiry(kw, key, t) == IF key \notin DOMAIN kw THEN "miss" ELSE "fresh"

\* the lookup at the head of verify: "miss", "stale" or "fresh"
Lookup(kw, key, t) ==
    IF key \notin DOMAIN kw THEN "miss"
    ELSE IF IsFresh(kw[key], t) THEN "fresh" ELSE "stale"

\* ---------------------------------------------------------------- initial state
Init ==
    /\ envUrl \in EnvUrls
    /\ envAuth \in EnvAuths
    /\ matcher = [tag |-> "Uninit"]
    /\ keywords = << >>
    /\ lockHolder = None
    /\ poisoned = FALSE
    /\ now = 0
    /\ pc = [c \in Callers |-> "idle"]
    /\ call = [c \in Callers |-> NoCall]
    /\ fetches = [c \in Callers |-> 0]
    /\ result = [c \in Callers |-> NoResult]
    /\ inflight = {}
    /\ queried = {}
    /\ origin = << >>
    /\ resolved = None
    /\ memo = None
    /\ obs = [c \in Callers |-> NoObs]
\* ---------------------------------------------------------------- actions
Selector(c) == [filter |-> call[c].filter, version |-> call[c].version]

\* koko_keywords_match is entered with (input, filter, version)
Call(c, input, sel) ==
    /\ pc[c] = "idle"
    /\ pc' = [pc EXCEPT ![c] = "deref"]
    /\ call' = [call EXCEPT ![c] = [input |-> input, filter |-> sel.filter,
                                    version |-> sel.version]]
    /\ obs' = [obs EXCEPT ![c] = [NoObs EXCEPT !.first = sel \notin queried]]
    /\ queried' = queried \cup {sel}
    /\ UNCHANGED <<envUrl, envAuth, matcher, keywords, lockHolder, poisoned, now,
                   fetches, result, inflight, origin, resolved, memo>>

\* What a panic inside koko_keywords_match leads to. The function is
\* extern "C", so the unwinding leaves Rust: the thread ends, the process
\* aborts, or the host catches it and the thread goes on.
PanicOutcomes == {"unwind", "abort", "caught"}

\* every caller's position after caller c panicked with the given outcome
AfterPanic(c, outcome) ==
    IF outcome = "abort" THEN [d \in Callers |-> "aborted"]
    ELSE [pc EXCEPT ![c] = IF outcome = "caught" THEN "idle" ELSE "panicked"]

\* a guard whose drop never poisons the mutex
GuardDropNoPoison(flag, panicking) == flag

\* the poison flag after a MutexGuard is dropped
GuardDrop(flag, panicking) == flag \/ panicking

\* a MATCHER that runs get_url on every dereference
ResolveEveryTime(m, url, auth) == GetUrl(url, auth)

\* the value MATCHER holds after a dereference: lazy_static runs the
\* initializer on the first one only
Resolve(m, url, auth) == IF m.tag = "Uninit" THEN GetUrl(url, auth) ELSE m

\* MATCHER is dereferenced
Deref(c) ==
    /\ pc[c] = "deref"
    /\ matcher' = Resolve(matcher, envUrl, envAuth)
    /\ resolved' = IF matcher.tag = "Uninit"
                   THEN Some([url |-> envUrl, auth |-> envAuth]) ELSE resolved
    /\ pc' = [pc EXCEPT ![c] = "lock"]
    /\ UNCHANGED <<envUrl, envAuth, keywords, lockHolder, poisoned, now, call,
                   fetches, result, inflight, queried, origin, memo, obs>>

\* a lock that never blocks
CanLockAlways(holder) == TRUE

\* Mutex::lock can return
CanLock(holder) == holder = None

\* MATCHER.lock().unwrap().as_mut().map_err(|e| e.clone())?
Lock(c) ==
    /\ pc[c] = "lock"
    /\ CanLock(lockHolder)
    /\ IF poisoned
       THEN /\ \E outcome \in PanicOutcomes : pc' = AfterPanic(c, outcome)
            /\ UNCHANGED <<lockHolder, result>>
       ELSE IF matcher.tag = "Err"
       THEN /\ pc' = [pc EXCEPT ![c] = "done"]
            /\ result' = [result EXCEPT ![c] = Err(matcher.err)]
            /\ UNCHANGED lockHolder
       ELSE /\ pc' = [pc EXCEPT ![c] = "verify"]
            /\ lockHolder' = Some(c)
            /\ UNCHANGED result
    /\ UNCHANGED <<envUrl, envAuth, matcher, keywords, poisoned, now, call,
                   fetches, inflight, queried, origin, resolved, memo, obs>>

\* a match that drains the keyword list it walks
AfterMatchDrained(kw, key) == [kw EXCEPT ![key].keywords.keywords = <<>>]

\* the map after the fresh branch of verify, which only reads the entry
AfterMatch(kw, key) == kw

\* a guard dropped before load_cache is called
ReleasedDuringFetch(c) == None

\* the holder of the mutex while verify is in load_cache: the guard taken in
\* koko_keywords_match_inner lives until verify has returned
HolderDuringFetch(c) == Some(c)

\* the head of verify: the lookup and, on a fresh entry, the match
Verify(c) ==
    LET key == CacheKey(call[c].filter, call[c].version)
        found == Lookup(keywords, key, now)
        seen == IF fetches[c] = 0 THEN [obs[c] EXCEPT !.entry = found] ELSE obs[c]
    IN
    /\ pc[c] = "verify"
    /\ IF found = "fresh"
       THEN LET r == Evaluate(keywords[key].keywords, call[c].input) IN
            /\ obs' = [obs EXCEPT ![c] = [seen EXCEPT !.used = Some(keywords[key].keywords),
                                                      !.usedFor = Some(origin[key])]]
            /\ keywords' = AfterMatch(keywords, key)
            /\ lockHolder' = None
            /\ poisoned' = GuardDrop(poisoned, r.tag = "Panic")
            /\ IF r.tag = "Panic"
               THEN /\ \E outcome \in PanicOutcomes : pc' = AfterPanic(c, outcome)
                    /\ UNCHANGED result
               ELSE /\ result' = [result EXCEPT ![c] = r]
                    /\ pc' = [pc EXCEPT ![c] = "done"]
            /\ UNCHANGED <<fetches, inflight>>
       ELSE /\ fetches[c] < MaxFetches
            /\ obs' = [obs EXCEPT ![c] = seen]
            /\ fetches' = [fetches EXCEPT ![c] = @ + 1]
            /\ inflight' = inflight \cup
                 {[caller |-> c,
                   request |-> Request(matcher.val, call[c].filter, call[c].version)]}
            /\ pc' = [pc EXCEPT ![c] = "fetching"]
            /\ lockHolder' = HolderDuringFetch(c)
            /\ UNCHANGED <<keywords, poisoned, result>>
    /\ UNCHANGED <<envUrl, envAuth, matcher, now, call, queried, origin, resolved,
                   memo>>

\* request.call() returns with resp; the rest of load_cache runs
Respond(c, resp) ==
    LET lc == LoadCache(keywords, call[c].filter, call[c].version, resp, now)
        key == CacheKey(call[c].filter, call[c].version)
        answer == IF resp.kind # "ok" THEN resp.kind
                  ELSE IF ParseBody(resp.body).tag # "Ok" THEN "malformed" ELSE "ok"
    IN
    /\ pc[c] = "fetching"
    /\ inflight' = { r \in inflight : r.caller # c }
    /\ keywords' = lc.keywords
    /\ IF lc.result.tag = "Ok"
       THEN /\ pc' = [pc EXCEPT ![c] = "verify"]
            /\ origin' = Insert(origin, key, Selector(c))
            /\ obs' = [obs EXCEPT ![c].fetched = Some(lc.keywords[key].keywords),
                                  ![c].answer = answer,
                                  ![c].header = resp.max_age]
            /\ UNCHANGED <<result, lockHolder, poisoned>>
       ELSE /\ pc' = [pc EXCEPT ![c] = "done"]
            /\ result' = [result EXCEPT ![c] = lc.result]
            /\ lockHolder' = None
            /\ poisoned' = GuardDrop(poisoned, FALSE)
            /\ obs' = [obs EXCEPT ![c].answer = answer]
            /\ UNCHANGED origin
    /\ UNCHANGED <<envUrl, envAuth, matcher, now, call, fetches, queried, resolved,
                   memo>>

\* koko_keywords_match returns ReturnCode(result) to its caller
Return(c) ==
    /\ pc[c] = "done"
    /\ pc' = [pc EXCEPT ![c] = "idle"]
    /\ call' = [call EXCEPT ![c] = NoCall]
    /\ fetches' = [fetches EXCEPT ![c] = 0]
    /\ result' = [result EXCEPT ![c] = NoResult]
    /\ obs' = [obs EXCEPT ![c] = NoObs]
    /\ UNCHANGED <<envUrl, envAuth, matcher, keywords, lockHolder, poisoned, now,
                   inflight, queried, origin, resolved, memo>>

\* Return, with the call noted for comparison with the next one
Remember(c) ==
    /\ pc[c] = "done"
    /\ memo' = Some([sel |-> Selector(c), input |-> call[c].input, result |-> result[c]])
    /\ pc' = [pc EXCEPT ![c] = "idle"]
    /\ call' = [call EXCEPT ![c] = NoCall]
    /\ fetches' = [fetches EXCEPT ![c] = 0]
    /\ result' = [result EXCEPT ![c] = NoResult]
    /\ obs' = [obs EXCEPT ![c] = NoObs]
    /\ UNCHANGED <<envUrl, envAuth, matcher, keywords, lockHolder, poisoned, now,
                   inflight, queried, origin, resolved>>

\* time passes
ClockStep ==
    /\ now' \in { t \in Times : t > now }
    /\ UNCHANGED <<envUrl, envAuth, matcher, keywords, lockHolder, poisoned, pc, call,
                   fetches, result, inflight, queried, origin, resolved, memo, obs>>

\* the host program changes the two environment variables
SetEnv ==
    /\ envUrl' \in EnvUrls
    /\ envAuth' \in EnvAuths
    /\ <<envUrl', envAuth'>> # <<envUrl, envAuth>>
    /\ UNCHANGED <<matcher, keywords, lockHolder, poisoned, now, pc, call,
                   fetches, result, inflight, queried, origin, resolved, memo, obs>>

\* one calling thread, the environment left alone after start
Next ==
    \/ \E input \in Inputs, sel \in Selectors : Call("c1", input, sel)
    \/ Deref("c1")
    \/ Lock("c1")
    \/ Verify("c1")
    \/ \E resp \in Responses : Respond("c1", resp)
    \/ Return("c1")
    \/ ClockStep

Spec == Init /\ [][Next]_vars

\* the selectors and answers of the runs that vary the environment or the threads
FewSelectors == { s \in Selectors : s.filter = <<"a">> }

FewResponses ==
    { r \in Responses :
        \/ r.kind = "transport"
        \/ r.kind = "ok" /\ r.body \in {[regex |-> RsDigits], [regex |-> RsBroken]} }

\* one calling thread in a program that rewrites its environment
NextEnv ==
    \/ \E sel \in FewSelectors : Call("c1", InputX, sel)
    \/ Deref("c1")
    \/ Lock("c1")
    \/ Verify("c1")
    \/ \E resp \in FewResponses : Respond("c1", resp)
    \/ Return("c1")
    \/ ClockStep
    \/ SetEnv

SpecEnv == Init /\ [][NextEnv]_vars

\* one calling thread whose calls are noted one after the other
NextRepeat ==
    \/ \E input \in Inputs, sel \in FewSelectors : Call("c1", input, sel)
    \/ Deref("c1")
    \/ Lock("c1")
    \/ Verify("c1")
    \/ \E resp \in Responses : Respond("c1", resp)
    \/ Remember("c1")
    \/ ClockStep

SpecRepeat == Init /\ [][NextRepeat]_vars

\* the selector the two threads share
ConcSelectors == { s \in Selectors : s.filter = <<"a">> /\ ~s.version.some }

\* two threads calling concurrently
NextConc ==
    \/ \E c \in Callers, sel \in ConcSelectors : Call(c, InputX, sel)
    \/ \E c \in Callers : Deref(c)
    \/ \E c \in Callers : Lock(c)
    \/ \E c \in Callers : Verify(c)
    \/ \E c \in Callers, resp \in FewResponses : Respond(c, resp)
    \/ \E c \in Callers : Return(c)
    \/ ClockStep

SpecConc == Init /\ [][NextConc]_vars

\* ---------------------------------------------------------------- claims
InCriticalSection(c) == pc[c] \in {"verify", "fetching"}

Key(c) == CacheKey(call[c].filter, call[c].version)

\* C1: a finished call that was the first one for its selector issued exactly
\* one remote fetch, and a finished later call whose lookup found the entry
\* still before its expiry issued none.
C1_FirstCallFetchesOnce ==
    \A c \in Callers :
        pc[c] = "done" /\ matcher.tag = "Ok" =>
            /\ obs[c].first => fetches[c] = 1
            /\ ~obs[c].first /\ obs[c].entry = "fresh" => fetches[c] = 0

\* C2: no call issues more than one remote fetch.
C2_AtMostOneRefresh == \A c \in Callers : fetches[c] <= 1

\* C3: a call that found its selector's entry expired and returned a match
\* result issued exactly one fetch, and the result was computed on the rule
\* set that fetch brought.
C3_StaleEntryRefetchedOnce ==
    \A c \in Callers :
        pc[c] = "done" /\ obs[c].entry = "stale" /\ result[c].tag = "Ok" =>
            /\ fetches[c] = 1
            /\ obs[c].used.some /\ obs[c].fetched.some
            /\ obs[c].used.val = obs[c].fetched.val

\* C4: the step in which a fetch ends in an error (the caller leaves
\* load_cache with Err) leaves the whole cache map as it was.
C4_FailedRefreshKeepsCache ==
    [][\A c \in Callers :
          pc[c] = "fetching" /\ pc'[c] = "done" /\ result'[c].tag = "Err"
              => keywords' = keywords]_vars

\* C4 witness: a call that found a stale entry ended in a fetch error and the
\* entry is still in the map.
C4_Witness ==
    \E c \in Callers :
        /\ pc[c] = "done"
        /\ result[c] = Err("ParseError")
        /\ obs[c].entry = "stale"
        /\ obs[c].answer = "malformed"
        /\ Key(c) \in DOMAIN keywords

\* C5: the entry a call's match ran on was fetched for that call's own
\* selector (filter and version), never for a different one.
C5_NoSharedEntry ==
    \A c \in Callers :
        obs[c].used.some => obs[c].usedFor = Some(Selector(c))

\* C6: at most one caller is between acquiring and releasing the MATCHER
\* mutex, and at most one request is in flight.
C6_MutualExclusion ==
    /\ Cardinality({ c \in Callers : InCriticalSection(c) }) <= 1
    /\ Cardinality(inflight) <= 1

\* C6 witness: one caller waits for the mutex while the other has a request
\* in flight.
C6_Witness ==
    \E c, d \in Callers :
        /\ pc[c] = "fetching"
        /\ pc[d] = "lock"
        /\ Cardinality(inflight) = 1

\* C7: a call whose request failed in transport or with a non-success status
\* ends with CacheRefreshRequestFailure, one whose body did not parse ends
\* with CacheResultParseFailure.
C7_DistinctFetchErrors ==
    \A c \in Callers :
        pc[c] = "done" =>
            /\ obs[c].answer \in {"transport", "status"}
                   => result[c] = Err("CacheRefreshRequestFailure")
            /\ obs[c].answer = "malformed"
                   => result[c] = Err("CacheResultParseFailure")

\* C8: MATCHER is an error exactly when get_url read both variables or
\* neither; while it is an error every call ends with AuthOrUrlMissing without
\* a request, a cache entry or a panic; while it is Ok no call ends with
\* AuthOrUrlMissing.
C8_ConfigurationError ==
    /\ resolved.some =>
           (matcher.tag = "Err" <=> (resolved.val.url.some = resolved.val.auth.some))
    /\ matcher.tag = "Err" =>
           /\ DOMAIN keywords = {}
           /\ inflight = {}
           /\ \A c \in Callers :
                  /\ pc[c] \notin {"verify", "fetching", "panicked"}
                  /\ fetches[c] = 0
                  /\ pc[c] = "done" => result[c] = Err("AuthOrUrlMissing")
    /\ matcher.tag = "Ok" =>
           \A c \in Callers : pc[c] = "done" => result[c] # Err("AuthOrUrlMissing")

\* C8 witness: a call ended with AuthOrUrlMissing after get_url read both
\* variables set.
C8_Witness ==
    \E c \in Callers :
        /\ pc[c] = "done"
        /\ result[c] = Err("AuthOrUrlMissing")
        /\ resolved.some
        /\ resolved.val.url.some /\ resolved.val.auth.some

\* C9: once MATCHER is initialized its value never changes, and every call
\* that finishes while it is an error finishes with AuthOrUrlMissing.
C9_ResolvedOnce ==
    [][/\ matcher.tag # "Uninit" => matcher' = matcher
       /\ \A c \in Callers :
              matcher.tag = "Err" /\ pc[c] # "done" /\ pc'[c] = "done"
                  => result'[c] = Err("AuthOrUrlMissing")]_vars

\* C9 witness: a call ended with AuthOrUrlMissing although the environment
\* now holds exactly one of the two variables.
C9_Witness ==
    \E c \in Callers :
        /\ pc[c] = "done"
        /\ result[c] = Err("AuthOrUrlMissing")
        /\ GetUrl(envUrl, envAuth).tag = "Ok"

\* C10: every pattern of every cached entry compiles, and no call panics.
C10_CachedPatternsValid ==
    /\ \A k \in DOMAIN keywords :
           /\ RegexNew(keywords[k].keywords.preprocess).tag = "Ok"
           /\ \A i \in 1..Len(keywords[k].keywords.keywords) :
                  RegexNew(keywords[k].keywords.keywords[i]).tag = "Ok"
    /\ \A c \in Callers : pc[c] # "panicked"

\* C11: a match result is TRUE exactly when some keyword pattern of the rule
\* set matches the input with every match of the preprocess pattern removed;
\* with "[0-9]" and "^abc$", a1b2c3 gives TRUE and xabcx gives FALSE.
C11_TwoStageMatch ==
    \A c \in Callers :
        pc[c] = "done" /\ result[c].tag = "Ok" /\ obs[c].used.some =>
            LET rs == obs[c].used.val
                normalized == ReplaceAll(rs.preprocess, call[c].input)
            IN
            /\ result[c].val =
                   (\E i \in 1..Len(rs.keywords) : IsMatch(rs.keywords[i], normalized))
            /\ rs = RsDigits /\ call[c].input = InputDigits => result[c].val = TRUE
            /\ rs = RsDigits /\ call[c].input = InputX => result[c].val = FALSE

\* C11 witness: a1b2c3 was matched on "[0-9]" / "^abc$" and the result is TRUE.
C11_Witness ==
    \E c \in Callers :
        /\ pc[c] = "done"
        /\ obs[c].used = Some(RsDigits)
        /\ call[c].input = InputDigits
        /\ result[c] = Ok(TRUE)

\* C12: the integer handed back is 1 exactly for a match, 0 exactly for no
\* match and negative for an error, and the integer of a failed call differs
\* from the integer a call failing in another way (configuration, request,
\* payload) is given.
C12_ReturnCodes ==
    \A c \in Callers :
        pc[c] = "done" =>
            /\ ReturnCode(result[c]) = 1 <=> result[c] = Ok(TRUE)
            /\ ReturnCode(result[c]) = 0 <=> result[c] = Ok(FALSE)
            /\ result[c].tag = "Err" =>
                   /\ ReturnCode(result[c]) < 0
                   /\ \A resp \in Responses :
                          LET other == LoadCache(keywords, call[c].filter,
                                                 call[c].version, resp, now).result
                              failure == IF resp.kind = "ok" THEN "malformed" ELSE "request"
                              mine == IF matcher.tag = "Err" THEN "configuration"
                                      ELSE IF obs[c].answer = "malformed" THEN "malformed"
                                      ELSE "request"
                          IN  other.tag = "Err" /\ failure # mine =>
                                  ReturnCode(other) # ReturnCode(result[c])

\* C13: the step that inserts an entry sets its expiry to the clock of that
\* step plus the max-age of the answer, or plus 3600 when the answer has none;
\* a well-formed answer is inserted whether or not it has the header.
C13_ExpiryIsNowPlusTtl ==
    [][\A c \in Callers :
          pc[c] = "fetching" =>
              /\ pc'[c] = "verify" =>
                     keywords'[Key(c)].expires_at =
                         now + (IF obs'[c].header.some THEN obs'[c].header.val ELSE 3600)
              /\ pc'[c] # "fetching" /\ obs'[c].answer = "ok" => pc'[c] = "verify"]_vars

\* C13 witness: an answer without the header was inserted and expires 3600
\* after the current clock.
C13_Witness ==
    \E c \in Callers :
        /\ pc[c] = "verify"
        /\ fetches[c] = 1
        /\ obs[c].answer = "ok"
        /\ ~obs[c].header.some
        /\ keywords[Key(c)].expires_at = now + 3600

\* C14: a lookup that ends the call without a request found an entry whose
\* expiry is strictly after the clock, and a lookup at or after the expiry of
\* the entry sends a request.
C14_StrictlyBeforeExpiry ==
    [][\A c \in Callers :
          pc[c] = "verify" /\ pc'[c] # "verify" =>
              /\ pc'[c] # "fetching" =>
                     /\ Key(c) \in DOMAIN keywords
                     /\ now < keywords[Key(c)].expires_at
              /\ Key(c) \in DOMAIN keywords /\ now >= keywords[Key(c)].expires_at =>
                     /\ pc'[c] = "fetching"
                     /\ fetches'[c] = fetches[c] + 1]_vars

\* C14 witness: a request is out for an entry whose expiry equals the clock.
C14_Witness ==
    \E c \in Callers :
        /\ pc[c] = "fetching"
        /\ obs[c].entry = "stale"
        /\ Key(c) \in DOMAIN keywords
        /\ keywords[Key(c)].expires_at = now

\* C15: a call served from the cache without a fetch, right after a call with
\* the same selector and input that returned a match result, returns the same
\* result.
C15_SameResultWhileFresh ==
    \A c \in Callers :
        /\ pc[c] = "done"
        /\ fetches[c] = 0
        /\ result[c].tag = "Ok"
        /\ memo.some
        /\ memo.val.sel = Selector(c)
        /\ memo.val.input = call[c].input
        /\ memo.val.result.tag = "Ok"
        => result[c] = memo.val.result

\* C15 witness: two calls in a row with the same selector and input, the
\* second served from the cache, both TRUE.
C15_Witness ==
    \E c \in Callers :
        /\ pc[c] = "done"
        /\ fetches[c] = 0
        /\ result[c] = Ok(TRUE)
        /\ memo = Some([sel |-> Selector(c), input |-> call[c].input, result |-> Ok(TRUE)])

\* C16: the call after a call for the same selector that failed with a fetch
\* error issues a fetch, and once some fetch of it has succeeded it ends with
\* a match result.
C16_RetryAfterFailure ==
    \A c \in Callers :
        /\ memo.some
        /\ memo.val.sel = Selector(c)
        /\ memo.val.result = Err("ParseError")
        /\ pc[c] \in {"done", "panicked", "aborted"}
        => /\ fetches[c] >= 1
           /\ obs[c].fetched.some => pc[c] = "done" /\ result[c].tag = "Ok"

\* C17: no step removes a key from the cache map, and an entry changes only
\* in the step that inserts the answer to a request for its own key.
C17_NoEviction ==
    [][/\ DOMAIN keywords \subseteq DOMAIN keywords'
       /\ \A k \in DOMAIN keywords :
              keywords'[k] # keywords[k] =>
                  \E c \in Callers :
                      pc[c] = "fetching" /\ pc'[c] = "verify" /\ Key(c) = k]_vars

\* C17 witness: the map holds two keys and the entry of one of them has expired.
C17_Witness ==
    \E k1, k2 \in DOMAIN keywords :
        /\ k1 # k2
        /\ now >= keywords[k1].expires_at

\* C18: of two callers with finished calls for the same selector, one of them
\* the first call ever made for it and both with a match result, at most one
\* found the entry missing; when that one fetched once and the other found
\* the entry fresh, one request was sent in total.
C18_OneFetchForConcurrentFirstCalls ==
    \A c, d \in Callers :
        /\ c # d
        /\ pc[c] = "done" /\ pc[d] = "done"
        /\ Selector(c) = Selector(d)
        /\ obs[c].first \/ obs[d].first
        /\ result[c].tag = "Ok" /\ result[d].tag = "Ok"
        => /\ ~(obs[c].entry = "miss" /\ obs[d].entry = "miss")
           /\ obs[c].entry = "miss" /\ fetches[c] = 1 /\ obs[d].entry = "fresh"
                  => fetches[c] + fetches[d] = 1

\* C18 witness: both callers are done with a match result, one fetched once
\* and the other found its entry.
C18_Witness ==
    \E c, d \in Callers :
        /\ c # d
        /\ pc[c] = "done" /\ pc[d] = "done"
        /\ obs[c].first /\ obs[c].entry = "miss" /\ fetches[c] = 1
        /\ obs[d].entry = "fresh" /\ fetches[d] = 0
        /\ result[c].tag = "Ok" /\ result[d].tag = "Ok"

\* C19: the step in which a call gets a match result is a lookup that finds
\* the entry of the call's key present with its expiry strictly after the clock.
C19_ResultOnlyFromFreshEntry ==
    [][\A c \in Callers :
          result'[c].tag = "Ok" /\ result[c].tag # "Ok" =>
              /\ pc[c] = "verify"
              /\ Key(c) \in DOMAIN keywords
              /\ now < keywords[Key(c)].expires_at]_vars

\* C19 witness: a call that found its entry expired has a match result.
C19_Witness ==
    \E c \in Callers :
        /\ pc[c] = "done"
        /\ obs[c].entry = "stale"
        /\ result[c].tag = "Ok"

\* C20: a call that leaves verify by a panic leaves the mutex poisoned; a
\* lookup of a fresh entry with an invalid keyword pattern that no pattern
\* before it keeps from being compiled poisons the mutex and gives no result;
\* once the mutex is poisoned it stays so and no call gets a result.
C20_PoisonedForGood ==
    [][/\ \A c \in Callers :
              pc[c] = "verify" /\ pc'[c] \notin {"verify", "fetching", "done"}
                  => poisoned'
       /\ \A c \in Callers :
              /\ pc[c] = "verify" /\ pc'[c] # "verify"
              /\ Key(c) \in DOMAIN keywords
              /\ now < keywords[Key(c)].expires_at
              /\ LET rs == keywords[Key(c)].keywords
                     text == ReplaceAll(rs.preprocess, call[c].input)
                 IN  \E i \in 1..Len(rs.keywords) :
                         /\ ~rs.keywords[i].valid
                         /\ \A j \in 1..(i - 1) : ~IsMatch(rs.keywords[j], text)
              => poisoned' /\ result'[c] = result[c]
       /\ poisoned =>
              /\ poisoned'
              /\ \A c \in Callers :
                     result'[c] # result[c] => result'[c] = NoResult]_vars

\* C20 witness: the mutex is poisoned and both callers have panicked, the
\* second one on locking it.
C20_Witness ==
    /\ poisoned
    /\ \A c \in Callers : pc[c] = "panicked"
====
